---- MODULE Spec2Model ----
(***************************************************************************)
(* A model of fatura-parser: the YNAB exporter (fatura_parser/core.py),    *)
(* the Brazilian amount normaliser and the two passes of the Itaú PDF      *)
(* parser (fatura_parser/parsers/itau.py).                                 *)
(*                                                                         *)
(* Currency values are Decimals with two places and are kept as integers   *)
(* of cents.  An Optional value is the sequence <<>> (None) or <<v>>.      *)
(* A formatted string is kept as the tuple of what it prints, so that a    *)
(* formatted date or amount is a different value from the date or the      *)
(* amount it was made from.                                                *)
(***************************************************************************)
EXTENDS Integers, Sequences, FiniteSets, TLC

VARIABLES
    fatura,     \* the Fatura object (core.py Fatura): the fields the model reads
    sink,       \* YNABExporter.export: the rows written to output_path
    checksum,   \* YNABExporter.export: the value returned by the last call
    ncalls,     \* number of export calls made so far
    ynab_row,   \* Transaction.to_ynab_row: what the last call returned
    amount_str, \* _parse_brl_amount: the token it is called with
    amount_out, \* _parse_brl_amount: what the call returned, None before it
    pc,         \* ItauPDFParser.parse: where the call stands
    page,       \* parse: number of pages the running pass has finished
    col,        \* the column ("left", "right") being cropped or read
    window,     \* the lines of the column text at and after the cursor i
    nlines,     \* number of lines of the column text read so far
    state,      \* parse: the dict shared by the columns of the main pass
    intl,       \* _parse_international_from_text: its locals for one column
    doc,        \* the text of a column that both passes extract and read
    marks,      \* history: the lines of doc the main pass took for candidates
    pdf_files,  \* run_batch: the files found, each with what the loop meets
    batch,      \* run_batch: where the loop stands, i and the last answer
    logger      \* BatchLogger: entries, and the counts write_summary wrote

expvars == <<fatura, sink, checksum, ncalls, ynab_row>>
amtvars == <<amount_str, amount_out>>
parsevars == <<pc, page, col, window, nlines, state, intl, doc, marks>>
\* what the parser leaves alone: the exporter's output, the amount call and
\* the text of the document
batchvars == <<pdf_files, batch, logger>>
notparse ==
    <<sink, checksum, ncalls, ynab_row, amount_str, amount_out, doc, marks,
      batchvars>>
vars == <<expvars, amtvars, parsevars, batchvars>>

\* ------------------------------------------------------------------ bounds
MaxTx == 2          \* longest transaction list of an exported statement
MaxExports == 2     \* export calls on one statement
MaxTokenLen == 4    \* longest amount token enumerated over the whole alphabet
MaxPages == 3       \* pages of a parsed document
MaxLines == 3       \* lines of one column text in the main pass
MaxIntlLines == 4   \* lines of one column text in the international pass
MaxDocLines == 4    \* lines of a column text read by both passes
MaxFiles == 3       \* PDF files found under the root directory
MaxViews == 2       \* view requests answered at the prompts of one run

\* ------------------------------------------------------------- data model
None == <<>>
Some(v) == <<v>>

Abs(a) == IF a < 0 THEN -a ELSE a

RECURSIVE SumAmounts(_)
SumAmounts(txs) ==
    IF txs = <<>> THEN 0 ELSE txs[1].amount_brl + SumAmounts(Tail(txs))

SeqsUpTo(S, n) == UNION {[1..k -> S] : k \in 0..n}

MkDate(y, m, d) == [year |-> y, month |-> m, day |-> d]

A_VISTA == "A_VISTA"
PARCELADA == "PARCELADA"

\* the outcome of a call: the value returned, or the exception raised
Return(v) == [exc |-> "none", val |-> <<v>>]
Raise(e) == [exc |-> e, val |-> <<>>]

\* core.py Transaction: the fields of the dataclass that have a default
TransactionDefaults ==
    [category |-> None, location |-> None, card |-> None,
     transaction_type |-> A_VISTA, installment |-> None,
     international |-> None, payment_method |-> "unknown",
     exported_at |-> None]

\* core.py Transaction: the fields of the dataclass.  card_last_digits is a
\* read-only property of the class, not a field.
TransactionFields ==
    {"date", "description", "amount_brl"} \cup DOMAIN TransactionDefaults

\* Transaction(**kwargs), the __init__ the dataclass generates: TypeError
\* for a keyword that names no field, else the fields given and the
\* defaults of the others (date, description and amount_brl are always given)
TransactionInit(kwargs) ==
    IF DOMAIN kwargs \subseteq TransactionFields
        THEN Return([f \in TransactionFields |->
                        IF f \in DOMAIN kwargs THEN kwargs[f]
                        ELSE TransactionDefaults[f]])
        ELSE Raise("TypeError")

\* Transaction(date=..., description=..., amount_brl=...,
\*             transaction_type=..., installment=...), as the tests build it
Transaction(date, description, amount_brl, transaction_type, installment) ==
    TransactionInit([date |-> date, description |-> description,
                     amount_brl |-> amount_brl,
                     transaction_type |-> transaction_type,
                     installment |-> installment]).val[1]

Installment(current, total) == [current |-> current, total |-> total]

\* core.py Card.display_id: short_name, "*", last_digits
CardDisplayId(card) == <<card.short_name, "*", card.last_digits>>

\* ------------------------------------------------ _parse_brl_amount
\* A string is the sequence of its characters.
Digits == {"0", "1", "2", "3", "4", "5", "6", "7", "8", "9"}

DigitVal(c) ==
    CASE c = "0" -> 0 [] c = "1" -> 1 [] c = "2" -> 2 [] c = "3" -> 3
      [] c = "4" -> 4 [] c = "5" -> 5 [] c = "6" -> 6 [] c = "7" -> 7
      [] c = "8" -> 8 [] c = "9" -> 9

\* str.replace(old, new) for a one-character old
RECURSIVE Replace(_, _, _)
Replace(s, old, new) ==
    IF s = <<>> THEN <<>>
    ELSE (IF s[1] = old THEN new ELSE <<s[1]>>) \o Replace(Tail(s), old, new)

\* the integer a string of digits denotes
RECURSIVE DigitsValue(_)
DigitsValue(ds) ==
    IF ds = <<>> THEN 0
    ELSE 10 * DigitsValue(SubSeq(ds, 1, Len(ds) - 1)) + DigitVal(ds[Len(ds)])

IsDigit(c) == c \in Digits

\* decimal.Decimal(str): sign, coefficient and number of decimal places, or
\* InvalidOperation.  The strings reaching it here hold digits, ".", "-" and
\* characters that belong to no number; exponents and the special values
\* (NaN, Infinity) are outside this alphabet.
DecimalOf(s) ==
    LET signed == s /= <<>> /\ s[1] \in {"-", "+"}
        body == IF signed THEN Tail(s) ELSE s
        dots == {i \in DOMAIN body : body[i] = "."}
        wellformed == /\ \A i \in DOMAIN body : IsDigit(body[i]) \/ body[i] = "."
                      /\ Cardinality(dots) <= 1
                      /\ \E i \in DOMAIN body : IsDigit(body[i])
    IN  IF wellformed
            THEN [exc |-> "none",
                  neg |-> signed /\ s[1] = "-",
                  coef |-> DigitsValue(SelectSeq(body, IsDigit)),
                  places |-> IF dots = {} THEN 0
                             ELSE Len(body) - (CHOOSE i \in dots : TRUE)]
            ELSE [exc |-> "InvalidOperation", neg |-> FALSE, coef |-> 0,
                  places |-> 0]

\* Decimal("0")
DecimalZero == [exc |-> "none", neg |-> FALSE, coef |-> 0, places |-> 0]

\* a cleaning that forgets the space between the minus sign and the digits
CleanedKeepingSpaces(s) == Replace(Replace(s, ".", <<>>), ",", <<".">>)

\* amount_str.replace(" ", "").replace(".", "").replace(",", ".")
Cleaned(s) == Replace(Replace(Replace(s, " ", <<>>), ".", <<>>), ",", <<".">>)

\* _parse_brl_amount(amount_str): Decimal(cleaned), and Decimal("0") when
\* that raises InvalidOperation
ParseBrlAmount(s) ==
    LET d == DecimalOf(Cleaned(s))
    IN  IF d.exc = "InvalidOperation" THEN DecimalZero ELSE d

\* the call, as the parser makes it on a token of a line
CallParseBrlAmount ==
    /\ amount_out = None
    /\ amount_out' = Some(ParseBrlAmount(amount_str))
    /\ UNCHANGED <<amount_str, expvars, parsevars, batchvars>>

\* the tokens of the documented cases, and every token over a small alphabet
TokenChars == {"0", "1", ",", ".", " ", "-", "x"}

SampleTokens ==
    { <<"1", ".", "2", "3", "4", ",", "5", "6">>,
      <<"-", " ", "8", "0", ",", "0", "0">>,
      <<"0", ",", "2", "0">>,
      <<"-", "1", ".", "2", "3", "4", ",", "5", "6">>,
      <<"1", " ", "2", "3", "4", ",", "5", "6">>,
      <<"-", "-", "1", ",", "0", "0">>,
      <<"1", ",", "2", ",", "3", "4">> }

Tokens == SeqsUpTo(TokenChars, MaxTokenLen) \cup SampleTokens

\* ------------------------------------------------------ YNABExporter
YNAB_HEADERS == <<"Date", "Payee", "Memo", "Outflow", "Inflow">>

\* strftime("%d/%m/%Y"): day, month, year in that order
FormatDate(d) == <<d.day, d.month, d.year>>

FirstOfMonth(d) == MkDate(d.year, d.month, 1)

\* f"{abs(amount):.2f}": the integer part and the two decimals of |amount|
FormatAmount(amount) == <<Abs(amount) \div 100, Abs(amount) % 100>>

Part(k, v) == [k |-> k, v |-> v]

\* f"exp:{exported_at.strftime('%Y-%m-%d %H:%M')}"
ExpPart(exported_at) == Part("exp", <<exported_at>>)

\* an installment part written for installment purchases only
InstallmentPartByType(tx) ==
    IF tx.installment /= None /\ tx.transaction_type = PARCELADA
        THEN <<Part("parcela", <<tx.installment[1].current,
                                 tx.installment[1].total>>)>>
        ELSE <<>>

\* if tx.installment: parts.append(f"parcela:{current}/{total}")
InstallmentPart(tx) ==
    IF tx.installment /= None
        THEN <<Part("parcela", <<tx.installment[1].current,
                                 tx.installment[1].total>>)>>
        ELSE <<>>

\* a memo that puts the category before the location
BuildMemoCategoryFirst(tx, original_date, exported_at) ==
       (IF tx.card /= None
           THEN <<Part("card", CardDisplayId(tx.card[1]))>> ELSE <<>>)
    \o (IF original_date /= None
           THEN <<Part("orig", FormatDate(original_date[1]))>> ELSE <<>>)
    \o InstallmentPart(tx)
    \o (IF tx.international /= None
           THEN <<Part("intl", <<tx.international[1].original_amount,
                                 tx.international[1].original_currency,
                                 tx.international[1].exchange_rate>>)>>
                \o (IF tx.international[1].city /= None
                       THEN <<Part("city", tx.international[1].city)>>
                       ELSE <<>>)
           ELSE <<>>)
    \o (IF tx.category /= None THEN <<Part("cat", tx.category)>> ELSE <<>>)
    \o (IF tx.location /= None THEN <<Part("loc", tx.location)>> ELSE <<>>)
    \o (IF exported_at /= None THEN <<ExpPart(exported_at[1])>> ELSE <<>>)

\* _build_memo: the parts list, in the order the code appends to it
BuildMemo(tx, original_date, exported_at) ==
       (IF tx.card /= None
           THEN <<Part("card", CardDisplayId(tx.card[1]))>> ELSE <<>>)
    \o (IF original_date /= None
           THEN <<Part("orig", FormatDate(original_date[1]))>> ELSE <<>>)
    \o InstallmentPart(tx)
    \o (IF tx.international /= None
           THEN <<Part("intl", <<tx.international[1].original_amount,
                                 tx.international[1].original_currency,
                                 tx.international[1].exchange_rate>>)>>
                \o (IF tx.international[1].city /= None
                       THEN <<Part("city", tx.international[1].city)>>
                       ELSE <<>>)
           ELSE <<>>)
    \o (IF tx.location /= None THEN <<Part("loc", tx.location)>> ELSE <<>>)
    \o (IF tx.category /= None THEN <<Part("cat", tx.category)>> ELSE <<>>)
    \o (IF exported_at /= None THEN <<ExpPart(exported_at[1])>> ELSE <<>>)

\* the effective date of installment rows and of the IOF row
EffectiveDate(f, today) ==
    IF f.statement_date /= None
        THEN FirstOfMonth(f.statement_date[1])
        ELSE FirstOfMonth(today)

\* a row that takes the presence of installment data for the kind
TxRowByInstallment(tx, effective_date, exported_at) ==
    LET parcelada == tx.installment /= None
        tx_date == IF parcelada THEN effective_date ELSE tx.date
        original_date == IF parcelada THEN Some(tx.date) ELSE None
    IN  [Date |-> FormatDate(tx_date),
         Payee |-> tx.description,
         Memo |-> BuildMemo(tx, original_date, Some(exported_at)),
         Outflow |-> IF tx.amount_brl > 0 THEN FormatAmount(tx.amount_brl)
                                           ELSE <<>>,
         Inflow |-> IF tx.amount_brl < 0 THEN FormatAmount(tx.amount_brl)
                                          ELSE <<>>]

\* the body of the loop over fatura.transactions: the row of one transaction
TxRow(tx, effective_date, exported_at) ==
    LET parcelada == tx.transaction_type = PARCELADA
        tx_date == IF parcelada THEN effective_date ELSE tx.date
        original_date == IF parcelada THEN Some(tx.date) ELSE None
    IN  [Date |-> FormatDate(tx_date),
         Payee |-> tx.description,
         Memo |-> BuildMemo(tx, original_date, Some(exported_at)),
         Outflow |-> IF tx.amount_brl > 0 THEN FormatAmount(tx.amount_brl)
                                           ELSE <<>>,
         Inflow |-> IF tx.amount_brl < 0 THEN FormatAmount(tx.amount_brl)
                                          ELSE <<>>]

\* an IOF row emitted also for a zero IOF
IofRowsFromZero(f, effective_date, exported_at) ==
    IF f.iof_international >= 0
        THEN <<[Date |-> FormatDate(effective_date),
                Payee |-> "IOF Internacional",
                Memo |-> <<Part("iof", <<>>), ExpPart(exported_at)>>,
                Outflow |-> FormatAmount(f.iof_international),
                Inflow |-> <<>>]>>
        ELSE <<>>

IofRows(f, effective_date, exported_at) ==
    IF f.iof_international > 0
        THEN <<[Date |-> FormatDate(effective_date),
                Payee |-> "IOF Internacional",
                Memo |-> <<Part("iof", <<>>), ExpPart(exported_at)>>,
                Outflow |-> FormatAmount(f.iof_international),
                Inflow |-> <<>>]>>
        ELSE <<>>

\* a payment condition that forgets that a credit balance is no payment
PaymentRowsAnyAmount(f, exported_at) ==
    IF f.payment_made /= 0 /\ f.payment_date /= None
        THEN <<[Date |-> FormatDate(f.payment_date[1]),
                Payee |-> "Pagamento Fatura Anterior",
                Memo |-> <<Part("payment", <<>>), ExpPart(exported_at)>>,
                Outflow |-> <<>>,
                Inflow |-> FormatAmount(f.payment_made)]>>
        ELSE <<>>

PaymentRows(f, exported_at) ==
    IF f.payment_made > 0 /\ f.payment_date /= None
        THEN <<[Date |-> FormatDate(f.payment_date[1]),
                Payee |-> "Pagamento Fatura Anterior",
                Memo |-> <<Part("payment", <<>>), ExpPart(exported_at)>>,
                Outflow |-> <<>>,
                Inflow |-> FormatAmount(f.payment_made)]>>
        ELSE <<>>

\* a checksum that nets the settlement of the previous statement
ChecksumWithPayment(f) ==
    SumAmounts(f.transactions)
    + (IF f.iof_international > 0 THEN f.iof_international ELSE 0)
    - (IF f.payment_made > 0 /\ f.payment_date /= None
          THEN f.payment_made ELSE 0)

\* the checksum accumulated by export: every transaction, then the IOF when
\* its row is emitted; the payment branch leaves it alone
Checksum(f) ==
    SumAmounts(f.transactions)
    + (IF f.iof_international > 0 THEN f.iof_international ELSE 0)

\* rows that put the payment before the IOF
RowsPaymentFirst(txrows, iofrows, paymentrows) ==
    txrows \o paymentrows \o iofrows

\* the list `rows` when the file is written: the appends of the loop, then
\* the one of the IOF branch, then the one of the payment branch
Rows(txrows, iofrows, paymentrows) == txrows \o iofrows \o paymentrows

\* a loop that stamps the transactions and leaves the list turned round
StampExportedAtReversed(txs, exported_at) ==
    [k \in 1..Len(txs) |->
        [txs[Len(txs) + 1 - k] EXCEPT !.exported_at = Some(exported_at)]]

\* tx.exported_at = exported_at, for tx in fatura.transactions
StampExportedAt(txs, exported_at) ==
    [k \in 1..Len(txs) |-> [txs[k] EXCEPT !.exported_at = Some(exported_at)]]

\* YNABExporter.export(fatura, output_path), called at time exported_at on
\* the day today; the file is written whole and the checksum returned
Export(exported_at, today) ==
    /\ ncalls < MaxExports
    /\ LET txs == fatura.transactions
           effective_date == EffectiveDate(fatura, today)
           stamped == StampExportedAt(txs, exported_at)
           txrows == [k \in 1..Len(txs) |->
                          TxRow(stamped[k], effective_date, exported_at)]
       IN  /\ fatura' = [fatura EXCEPT !.transactions = stamped]
           /\ sink' = [header |-> YNAB_HEADERS,
                       rows |-> Rows(txrows,
                                     IofRows(fatura, effective_date,
                                             exported_at),
                                     PaymentRows(fatura, exported_at))]
           /\ checksum' = Checksum(fatura)
    /\ ncalls' = ncalls + 1
    /\ UNCHANGED <<ynab_row, amtvars, parsevars, batchvars>>

\* str(d) of a Decimal with two places: the sign, the integer part and the
\* two decimals
StrDecimal(a) == <<IF a < 0 THEN "-" ELSE "", Abs(a) \div 100, Abs(a) % 100>>

\* a row that prints a credit with its sign
ToYnabRowSigned(tx) ==
    [Date |-> <<tx.date.year, tx.date.month, tx.date.day>>,
     Payee |-> tx.description,
     Memo |-> <<>>,
     Outflow |-> IF tx.amount_brl > 0 THEN StrDecimal(tx.amount_brl) ELSE <<>>,
     Inflow |-> IF tx.amount_brl < 0 THEN StrDecimal(tx.amount_brl) ELSE <<>>]

\* Transaction.to_ynab_row: the date as %Y-%m-%d, an empty memo, and the
\* amount as str prints it on the side of its sign
ToYnabRow(tx) ==
    [Date |-> <<tx.date.year, tx.date.month, tx.date.day>>,
     Payee |-> tx.description,
     Memo |-> <<>>,
     Outflow |-> IF tx.amount_brl > 0 THEN StrDecimal(tx.amount_brl) ELSE <<>>,
     Inflow |-> IF tx.amount_brl < 0 THEN StrDecimal(Abs(tx.amount_brl))
                                      ELSE <<>>]

\* tx.to_ynab_row() on the k-th transaction of the statement
CallToYnabRow(k) ==
    /\ k \in DOMAIN fatura.transactions
    /\ ynab_row' = Some([tx |-> k, row |-> ToYnabRow(fatura.transactions[k])])
    /\ UNCHANGED <<fatura, sink, checksum, ncalls, amtvars, parsevars,
                   batchvars>>

\* ------------------------------------------------ ItauPDFParser: lines
\* A line of extracted text is kept as what the parser's tests of it give:
\* the substring tests of the banners and of the noise vocabulary, and the
\* groups of the regular expressions that match it.
NoLine ==
    [blank |-> FALSE,        \* not line (empty once stripped)
     future |-> FALSE,       \* "próximas faturas" or "Compras parceladas"
     intl |-> FALSE,         \* "Lançamentos internacionais"
     rafael_final |-> FALSE, \* "RAFAEL" in line.upper(), "final" in line.lower()
     final |-> None,         \* CARD_FINAL_PATTERN.search: the four digits
     compras |-> FALSE,      \* "Lançamentos", "compras" and "saques"
     skip |-> FALSE,         \* one of the header and metadata substrings
     subtotal |-> FALSE,     \* "Lançamentos no cartão"
     total |-> FALSE,        \* startswith("Total") or "LTotal"
     date |-> None,          \* DATE_PATTERN.match: <<day, month>>
     inst |-> None,          \* INSTALLMENT_PATTERN.search: <<current, total>>
     amt |-> None,           \* the amount token of the pattern that matched
     desc |-> "",            \* rest[:match.start()].strip()
     cat |-> None,           \* CATEGORY_LOCATION_PATTERN.match: the two groups
     total_inter |-> FALSE,  \* "Total transa" and "inter"
     repasse |-> FALSE,      \* "Repasse" and "IOF"
     iof |-> None,           \* IOF_INTL_PATTERN.search: the amount token
     total_lan_inter |-> FALSE, \* "Total lan" and "inter"
     total_dos_lan |-> FALSE,   \* "Total dos lan"
     dolar |-> FALSE,        \* "Dólar" and "Conversão"
     rate |-> None,          \* EXCHANGE_RATE_PATTERN.search: the rate token
     details |-> None]       \* INTL_DETAILS_PATTERN.search: city, amount, currency

\* str.upper() on the locations of the sample lines
Upper(str) ==
    CASE str = "Belo Horizont" -> "BELO HORIZONT"
      [] str = "Compras parceladas" -> "COMPRAS PARCELADAS"
      [] str = "final" -> "FINAL"
      [] OTHER -> str

Tok12595 == <<"1", "2", "5", ",", "9", "5">>
TokCredit2886 == <<"-", " ", "2", "8", ",", "8", "6">>
Tok34261 == <<"3", "4", "2", ",", "6", "1">>
Tok100 == <<"1", ",", "0", "0">>

TxLine(ddmm, desc, tok) ==
    [NoLine EXCEPT !.date = Some(ddmm), !.desc = desc, !.amt = Some(tok)]

InstLine(ddmm, desc, current, total, tok) ==
    [NoLine EXCEPT !.date = Some(ddmm), !.desc = desc, !.amt = Some(tok),
                   !.inst = Some(<<current, total>>)]

CardHeader(digits) ==
    [NoLine EXCEPT !.rafael_final = TRUE, !.final = Some(digits)]

CatLine(category, location) ==
    [NoLine EXCEPT !.cat = Some(<<category, location>>)]

\* the lines a column of the main pass is made of
MainLines ==
    { [NoLine EXCEPT !.blank = TRUE],
      \* "Compras parceladas - próximas faturas"
      [NoLine EXCEPT !.future = TRUE],
      \* "Lançamentos internacionais" and "... (final 6529)"
      [NoLine EXCEPT !.intl = TRUE],
      [NoLine EXCEPT !.intl = TRUE, !.final = Some("6529")],
      \* "RAFAEL A SILVA (final 5415)", "... (final 6529)"
      CardHeader("5415"), CardHeader("6529"),
      \* "RAFAEL A SILVA FINAL": both substrings, no "final" and four digits
      [NoLine EXCEPT !.rafael_final = TRUE],
      \* "Lançamentos: compras e saques"
      [NoLine EXCEPT !.compras = TRUE],
      \* "DATA ESTABELECIMENTO VALOR EM R$"
      [NoLine EXCEPT !.skip = TRUE],
      \* "Lançamentos no cartão (final 5415) 1.429,80"
      [NoLine EXCEPT !.subtotal = TRUE, !.final = Some("5415")],
      \* "Total dos lançamentos atuais 19.101,06"
      [NoLine EXCEPT !.total = TRUE, !.total_dos_lan = TRUE],
      \* "16/10 REDENTOR QUIOSQUE PARK 125,95"
      TxLine(<<16, 10>>, "REDENTOR QUIOSQUE PARK", Tok12595),
      \* "20/10 APPLE.COM/BILL - 28,86"
      TxLine(<<20, 10>>, "APPLE.COM/BILL", TokCredit2886),
      \* "16/10 Caso pagamento 1,00": a dated line with noise words in it
      [TxLine(<<16, 10>>, "Caso pagamento", Tok100) EXCEPT !.skip = TRUE],
      \* "31/02 FARMACIA 1,00": no such day
      TxLine(<<31, 2>>, "FARMACIA", Tok100),
      \* "16/10 A 1,00" and "16/10 125,95": one-character and empty remnant
      TxLine(<<16, 10>>, "A", Tok100),
      TxLine(<<16, 10>>, "", Tok12595),
      \* "16/10 FARMACIA": a date and no amount
      [NoLine EXCEPT !.date = Some(<<16, 10>>)],
      \* "26/03 AUTO JAPAN 08/10 342,61"
      InstLine(<<26, 3>>, "AUTO JAPAN", 8, 10, Tok34261),
      \* "26/03 LOJA 05/03 1,00" and "26/03 LOJA 00/00 1,00"
      InstLine(<<26, 3>>, "LOJA", 5, 3, Tok100),
      InstLine(<<26, 3>>, "LOJA", 0, 0, Tok100),
      \* "06/11 13/11 1,00": two dates and an amount, no description
      InstLine(<<6, 11>>, "", 13, 11, Tok100),
      \* "ALIMENTAÇÃO . Belo Horizont"
      CatLine("ALIMENTAÇÃO", "Belo Horizont"),
      \* "COMPRAS . Compras parceladas": category shape and future banner
      [CatLine("COMPRAS", "Compras parceladas") EXCEPT !.future = TRUE],
      \* "RAFAEL . final": category shape and card-header substrings
      [CatLine("RAFAEL", "final") EXCEPT !.rafael_final = TRUE],
      \* "Limite total": nothing the parser looks for
      NoLine }

\* ------------------------------------------------ dates
IsLeap(y) == (y % 4 = 0 /\ y % 100 /= 0) \/ y % 400 = 0

DaysInMonth(y, mth) ==
    IF mth = 2 THEN (IF IsLeap(y) THEN 29 ELSE 28)
    ELSE IF mth \in {4, 6, 9, 11} THEN 30 ELSE 31

\* _parse_date(date_str, year): date(year, month, day), which raises
\* ValueError for a day or month out of range
ParseDate(ddmm, year) ==
    IF /\ ddmm[2] \in 1..12
       /\ ddmm[1] \in 1..DaysInMonth(year, ddmm[2])
        THEN Return(MkDate(year, ddmm[2], ddmm[1]))
        ELSE Raise("ValueError")

\* a Decimal with at most two places, in cents
Cents(dec) ==
    (IF dec.neg THEN -1 ELSE 1)
    * (IF dec.places = 0 THEN dec.coef * 100
       ELSE IF dec.places = 1 THEN dec.coef * 10 ELSE dec.coef)

\* statement_year of both passes
StatementYear(f) ==
    IF f.statement_date /= None THEN f.statement_date[1].year ELSE 2025

\* ------------------------------------------------ _parse_column_text
\* core.py Transaction.card_last_digits, the property
CardLastDigits(tx) ==
    IF tx.card /= None THEN Some(tx.card[1].last_digits) ELSE None

\* the state dict made by parse()
InitialState ==
    [current_card |-> None, in_future_section |-> FALSE,
     in_intl_section |-> FALSE]

\* what one iteration of the while loop does: the state dict after it, the
\* transactions appended, the number of lines the cursor advances by, and
\* the exception that leaves the loop, if any
Step(st, append, used, exc) ==
    [state |-> st, append |-> append, used |-> used, exc |-> exc]

\* a test that lets the lines of the international section through
InSkippedSectionFutureOnly(st) == st.in_future_section

\* if state.get("in_future_section") or state.get("in_intl_section")
InSkippedSection(st) == st.in_future_section \/ st.in_intl_section

\* where the chain of tests of one iteration sends a line
Classify(line, st) ==
    IF line.blank THEN "blank"
    ELSE IF line.future THEN "future_banner"
    ELSE IF line.intl THEN "intl_banner"
    ELSE IF line.rafael_final THEN "card_header"
    ELSE IF line.compras THEN "compras_header"
    ELSE IF InSkippedSection(st) THEN "in_skipped_section"
    ELSE IF line.skip THEN "noise"
    ELSE IF line.subtotal THEN "subtotal"
    ELSE IF line.total THEN "total"
    ELSE IF line.date = None THEN "no_date"
    ELSE IF line.inst /= None THEN "installment"
    ELSE IF line.amt = None THEN "no_amount"
    ELSE IF Len(line.desc) < 2 THEN "short_description"
    ELSE "plain"

\* the try block of a transaction candidate: the date, the Transaction, the
\* look at the next line for a category, the append.  ValueError and
\* IndexError are caught and the line passed over; any other exception
\* leaves _parse_column_text.
TryTransaction(line, lookahead, st, year, kind_kwargs) ==
    LET tx_date == ParseDate(line.date[1], year)
    IN  IF tx_date.exc = "ValueError" THEN Step(st, <<>>, 1, "none")
        ELSE
        LET tx == TransactionInit(
                    [date |-> tx_date.val[1],
                     description |-> line.desc,
                     amount_brl |-> Cents(ParseBrlAmount(line.amt[1])),
                     card_last_digits |-> st.current_card] @@ kind_kwargs)
        IN  IF tx.exc /= "none" THEN Step(st, <<>>, 0, tx.exc)
            ELSE IF lookahead /= None /\ lookahead[1].cat /= None
            THEN
            LET tx2 == TransactionInit(
                         [date |-> tx.val[1].date,
                          description |-> tx.val[1].description,
                          amount_brl |-> tx.val[1].amount_brl,
                          category |-> Some(lookahead[1].cat[1][1]),
                          location |-> Some(Upper(lookahead[1].cat[1][2])),
                          card_last_digits |-> CardLastDigits(tx.val[1])]
                         @@ kind_kwargs)
            IN  IF tx2.exc /= "none" THEN Step(st, <<>>, 0, tx2.exc)
                ELSE Step(st, <<tx2.val[1]>>, 2, "none")
            ELSE Step(st, <<tx.val[1]>>, 1, "none")

\* a card header that leaves the international section as well
CardHeaderStateClearsIntl(st, line) ==
    [st EXCEPT !.current_card = line.final,
               !.in_future_section = FALSE,
               !.in_intl_section = FALSE]

\* if card_match: the card is the one of the header and the future section
\* ends; in_intl_section is left as it is
CardHeaderState(st, line) ==
    [st EXCEPT !.current_card = line.final, !.in_future_section = FALSE]

\* one iteration of the while loop of _parse_column_text on lines[i], with
\* lines[i + 1] as lookahead when there is one
ParseLine(line, lookahead, st, year) ==
    LET kind == Classify(line, st)
    IN  CASE kind = "future_banner" ->
                Step([st EXCEPT !.in_future_section = TRUE], <<>>, 1, "none")
          [] kind = "intl_banner" ->
                Step([st EXCEPT !.in_intl_section = TRUE], <<>>, 1, "none")
          [] kind = "card_header" ->
                IF line.final /= None
                    THEN Step(CardHeaderState(st, line), <<>>, 1, "none")
                    ELSE Step(st, <<>>, 1, "none")
          [] kind = "compras_header" ->
                Step([st EXCEPT !.in_intl_section = FALSE], <<>>, 1, "none")
          [] kind = "installment" ->
                TryTransaction(line, lookahead, st, year,
                    [transaction_type |-> PARCELADA,
                     installment |-> Some(Installment(line.inst[1][1],
                                                      line.inst[1][2]))])
          [] kind = "plain" ->
                TryTransaction(line, lookahead, st, year,
                    [transaction_type |-> A_VISTA])
          [] OTHER -> Step(st, <<>>, 1, "none")

\* ------------------------------------------------ the main pass of parse
\* the lines a column text may start with, and go on with
FirstWindows == UNION {[1..k -> MainLines] : k \in 1..(IF MaxLines < 2 THEN MaxLines ELSE 2)}

\* the column just ended: the right column after the left one, the next
\* page after the right one
AfterColumn ==
    IF col = "left"
        THEN pc' = "main_crop" /\ col' = "right" /\ UNCHANGED page
        ELSE pc' = "main_page" /\ col' = "left" /\ page' = page + 1

\* for page in pdf.pages: _parse_page_columns returns at once on a page whose
\* full text lacks "Lançamentos" or "compras e saques"
ParsePageColumns(has_table) ==
    /\ pc = "main_page"
    /\ page < MaxPages
    /\ IF has_table
          THEN pc' = "main_crop" /\ col' = "left" /\ UNCHANGED page
          ELSE pc' = "main_page" /\ page' = page + 1 /\ UNCHANGED col
    /\ UNCHANGED <<fatura, window, nlines, state, intl, notparse>>

\* page.crop or extract_text raises: except Exception: pass
MainCropFails ==
    /\ pc = "main_crop"
    /\ AfterColumn
    /\ UNCHANGED <<fatura, window, nlines, state, intl, notparse>>

\* a parser that starts each column with a tracker of its own
StateArgumentFresh(st) == InitialState

\* the `state` _parse_column_text is called with: the dict parse built,
\* handed on by _parse_page_columns as it is
StateArgument(st) == st

\* the column is cropped, its text extracted and split into lines
MainCropColumn(w) ==
    /\ pc = "main_crop"
    /\ pc' = "main_lines"
    /\ window' = w
    /\ nlines' = Len(w)
    /\ state' = StateArgument(state)
    /\ UNCHANGED <<fatura, page, col, intl, notparse>>

\* one iteration of the while loop of _parse_column_text.  An exception that
\* leaves _parse_column_text is caught by _parse_page_columns, which goes on
\* with the next column.
MainParseLine ==
    /\ pc = "main_lines"
    /\ window /= <<>>
    /\ LET r == ParseLine(window[1],
                          IF Len(window) >= 2 THEN Some(window[2]) ELSE None,
                          state, StatementYear(fatura))
       IN  /\ state' = r.state
           /\ fatura' = [fatura EXCEPT !.transactions = @ \o r.append]
           /\ IF r.exc /= "none"
                 THEN /\ AfterColumn
                      /\ window' = <<>>
                      /\ nlines' = 0
                 ELSE /\ \E more \in SeqsUpTo(MainLines, r.used) :
                            /\ Len(window) = 2 \/ more = <<>>
                            /\ nlines + Len(more) <= MaxLines
                            /\ window' = SubSeq(window, r.used + 1, Len(window))
                                         \o more
                            /\ nlines' = nlines + Len(more)
                      /\ UNCHANGED <<pc, page, col>>
    /\ UNCHANGED <<intl, notparse>>

\* i reached len(lines): _parse_column_text returns
MainEndColumn ==
    /\ pc = "main_lines"
    /\ window = <<>>
    /\ AfterColumn
    /\ nlines' = 0
    /\ UNCHANGED <<fatura, window, state, intl, notparse>>

\* the loop over pdf.pages ends: the international pass is next
MainPagesDone ==
    /\ pc = "main_page"
    /\ page >= 1
    /\ pc' = "intl_page"
    /\ page' = 0
    /\ UNCHANGED <<fatura, col, window, nlines, state, intl, notparse>>

\* ------------------------------------------------ the international pass
\* _parse_international_from_text: its locals at the start of a column
IntlLocals == [current_card |-> None, in_intl_section |-> FALSE,
               pending |-> None]

Tok5830 == <<"5", "8", ",", "3", "0">>
Tok1000 == <<"1", "0", ",", "0", "0">>
Tok000 == <<"0", ",", "0", "0">>
Tok583 == <<"5", ",", "8", "3">>
Tok4500 == <<"4", "5", ",", "0", "0">>

\* the lines a column holding the international section is made of
IntlBanners ==
    { \* "Lançamentos internacionais"
      [NoLine EXCEPT !.intl = TRUE],
      \* "Lançamentos internacionais (final 5415)"
      [NoLine EXCEPT !.intl = TRUE, !.final = Some("5415")] }

IntlLines ==
    IntlBanners \cup
    { \* "Total transações inter. em R$ 58,30"
      [NoLine EXCEPT !.total = TRUE, !.total_inter = TRUE],
      \* "Repasse de IOF em R$ 45,00"
      [NoLine EXCEPT !.repasse = TRUE, !.iof = Some(Tok4500)],
      \* "Total lançamentos inter. em R$ 103,30"
      [NoLine EXCEPT !.total = TRUE, !.total_lan_inter = TRUE],
      \* "Total dos lançamentos atuais 19.101,06"
      [NoLine EXCEPT !.total = TRUE, !.total_dos_lan = TRUE],
      \* "RAFAEL A SILVA (final 6529)"
      CardHeader("6529"),
      \* "Dólar de Conversão R$ 5,83"
      [NoLine EXCEPT !.dolar = TRUE, !.rate = Some(Tok583)],
      \* "15/10 GITHUB 58,30"
      TxLine(<<15, 10>>, "GITHUB", Tok5830),
      \* "15/10 GITHUB": a date and no amount
      [NoLine EXCEPT !.date = Some(<<15, 10>>)],
      \* "31/02 GITHUB 58,30": no such day
      TxLine(<<31, 2>>, "GITHUB", Tok5830),
      \* "SAN FRANCISCO 10,00 USD 5,83" and "SAN FRANCISCO 0,00 USD 0,00"
      [NoLine EXCEPT !.details = Some(<<"SAN FRANCISCO", Tok1000, "USD">>)],
      [NoLine EXCEPT !.details = Some(<<"SAN FRANCISCO", Tok000, "USD">>)],
      \* "Lançamentos: compras e saques"
      [NoLine EXCEPT !.compras = TRUE] }

\* a column text that is processed holds "Lançamentos internacionais": the
\* lines that can follow its first n lines, the banner being among those n
\* or not
IntlNextLines(banner_seen, n) ==
    IF banner_seen \/ n + 1 < MaxIntlLines THEN IntlLines ELSE IntlBanners

\* the dict of a pending transaction: the keys set by the start line, and the
\* keys a detail line or an exchange-rate line adds
Pending(date, description, amount_brl, card) ==
    [date |-> date, description |-> description, amount_brl |-> amount_brl,
     card |-> card, city |-> None, orig_amount |-> None, currency |-> None,
     exchange_rate |-> None]

\* _finalize_intl_transaction(data, fatura): the Transaction it builds, or
\* the exception the construction raises
FinalizeIntlTransaction(data) ==
    LET intl_info ==
            IF data.orig_amount /= None /\ data.currency /= None
                THEN Some([original_amount |-> data.orig_amount[1],
                           original_currency |-> data.currency[1],
                           exchange_rate |-> IF data.exchange_rate /= None
                                                THEN data.exchange_rate[1]
                                                ELSE 0,
                           city |-> data.city])
                ELSE None
    IN  TransactionInit([date |-> data.date,
                         description |-> data.description,
                         amount_brl |-> data.amount_brl,
                         card_last_digits |-> None,
                         transaction_type |-> A_VISTA,
                         international |-> intl_info,
                         payment_method |-> "online"])

\* what the body of the for loop does with one line: the locals after it,
\* the transactions appended, the IOF stored, and the exception that leaves
\* the loop, if any
IntlStep(loc, append, iof, exc) ==
    [intl |-> loc, append |-> append, iof |-> iof, exc |-> exc]

\* if pending: self._finalize_intl_transaction(pending, fatura), then go on
\* with the locals `after`
Flush(loc, after) ==
    IF loc.pending = None THEN IntlStep(after, <<>>, None, "none")
    ELSE LET tx == FinalizeIntlTransaction(loc.pending[1])
         IN  IF tx.exc /= "none" THEN IntlStep(loc, <<>>, None, tx.exc)
             ELSE IntlStep(after, <<tx.val[1]>>, None, "none")

\* the transaction start line: the pending transaction is finalized and left
\* in place; a line with an amount replaces it, by a new one or, when the
\* date is no date, by None
IntlStartLine(line, loc, year) ==
    IF line.amt = None THEN Flush(loc, loc)
    ELSE LET tx_date == ParseDate(line.date[1], year)
         IN  IF tx_date.exc = "ValueError"
                 THEN Flush(loc, [loc EXCEPT !.pending = None])
                 ELSE Flush(loc, [loc EXCEPT !.pending =
                          Some(Pending(tx_date.val[1], line.desc,
                                       Cents(ParseBrlAmount(line.amt[1])),
                                       loc.current_card))])

\* the body of the for loop over the lines of a column
IntlParseLineOp(line, loc, year) ==
    IF line.intl
        THEN IntlStep([loc EXCEPT !.in_intl_section = TRUE,
                                  !.current_card = IF line.final /= None
                                                      THEN line.final ELSE @],
                      <<>>, None, "none")
    ELSE IF ~loc.in_intl_section THEN IntlStep(loc, <<>>, None, "none")
    ELSE IF line.total_inter THEN Flush(loc, [loc EXCEPT !.pending = None])
    ELSE IF line.repasse
        THEN IntlStep(loc, <<>>,
                      IF line.iof /= None
                          THEN Some(Cents(ParseBrlAmount(line.iof[1])))
                          ELSE None,
                      "none")
    ELSE IF line.total_lan_inter
        THEN IntlStep([loc EXCEPT !.in_intl_section = FALSE], <<>>, None, "none")
    ELSE IF line.total_dos_lan
        THEN Flush(loc, [loc EXCEPT !.pending = None,
                                    !.in_intl_section = FALSE])
    ELSE IF line.rafael_final
        THEN IntlStep([loc EXCEPT !.current_card = IF line.final /= None
                                                      THEN line.final ELSE @],
                      <<>>, None, "none")
    ELSE IF line.dolar
        THEN IF loc.pending = None THEN IntlStep(loc, <<>>, None, "none")
             ELSE LET rated ==
                        IF line.rate /= None
                            THEN [loc EXCEPT !.pending[1].exchange_rate =
                                     Some(Cents(ParseBrlAmount(line.rate[1])))]
                            ELSE loc
                  IN  Flush(rated, [rated EXCEPT !.pending = None])
    ELSE IF line.date /= None THEN IntlStartLine(line, loc, year)
    ELSE IF line.details /= None /\ loc.pending /= None
        THEN IntlStep([loc EXCEPT
                          !.pending[1].city = Some(line.details[1][1]),
                          !.pending[1].orig_amount =
                              Some(Cents(ParseBrlAmount(line.details[1][2]))),
                          !.pending[1].currency = Some(line.details[1][3])],
                      <<>>, None, "none")
    ELSE IntlStep(loc, <<>>, None, "none")

\* the column just ended or was passed over: the right column after the
\* left one, the next page after the right one
AfterIntlColumn ==
    IF col = "left"
        THEN pc' = "intl_crop" /\ col' = "right" /\ UNCHANGED page
        ELSE pc' = "intl_page" /\ col' = "left" /\ page' = page + 1

\* for page in pdf.pages: a page whose full text lacks "Lançamentos
\* internacionais" is passed over
IntlPage(has_section) ==
    /\ pc = "intl_page"
    /\ page < MaxPages
    /\ IF has_section
          THEN pc' = "intl_crop" /\ col' = "left" /\ UNCHANGED page
          ELSE pc' = "intl_page" /\ page' = page + 1 /\ UNCHANGED col
    /\ UNCHANGED <<fatura, window, nlines, state, intl, notparse>>

\* page.crop or extract_text raises (except Exception: continue), or the
\* column text lacks "Lançamentos internacionais" (continue)
IntlSkipColumn ==
    /\ pc = "intl_crop"
    /\ AfterIntlColumn
    /\ UNCHANGED <<fatura, window, nlines, state, intl, notparse>>

\* the column text is split into lines and the locals are initialised; the
\* window holds the line the loop is about to read
IntlCropColumn(line) ==
    /\ pc = "intl_crop"
    /\ pc' = "intl_lines"
    /\ window' = <<line>>
    /\ nlines' = 1
    /\ intl' = IntlLocals
    /\ UNCHANGED <<fatura, page, col, state, notparse>>

\* one iteration of the for loop.  Nothing around the loop catches an
\* exception: it leaves _parse_international_from_text and parse.
IntlParseLine ==
    /\ pc = "intl_lines"
    /\ window /= <<>>
    /\ LET r == IntlParseLineOp(window[1], intl, StatementYear(fatura))
       IN  /\ intl' = r.intl
           /\ fatura' = [fatura EXCEPT
                            !.transactions = @ \o r.append,
                            !.iof_international =
                                IF r.iof /= None THEN r.iof[1] ELSE @]
           /\ IF r.exc /= "none"
                 THEN pc' = "failed" /\ UNCHANGED <<window, nlines>>
                 ELSE /\ UNCHANGED pc
                      /\ \/ /\ r.intl.in_intl_section
                            /\ window' = <<>>
                            /\ UNCHANGED nlines
                         \/ /\ nlines < MaxIntlLines
                            /\ \E line \in IntlNextLines(
                                             r.intl.in_intl_section, nlines) :
                                   window' = <<line>>
                            /\ nlines' = nlines + 1
    /\ UNCHANGED <<page, col, state, notparse>>

\* the for loop over the lines ends: the pending transaction, if any, is
\* dropped with the locals
IntlEndColumn ==
    /\ pc = "intl_lines"
    /\ window = <<>>
    /\ AfterIntlColumn
    /\ nlines' = 0
    /\ UNCHANGED <<fatura, window, state, intl, notparse>>

\* the loop over pdf.pages ends: parse returns the fatura
IntlPagesDone ==
    /\ pc = "intl_page"
    /\ page >= 1
    /\ pc' = "done"
    /\ UNCHANGED <<fatura, page, col, window, nlines, state, intl, notparse>>

\* ------------------------------------------------ statements to export
StatementDay == MkDate(2025, 11, 6)
PurchaseDay == MkDate(2025, 3, 26)
PaymentDay == MkDate(2025, 10, 10)
Todays == {MkDate(2026, 1, 5), MkDate(2025, 11, 20)}
Timestamps == {1, 2}

\* Card(holder_name="RAFAEL A SILVA", last_digits="5415"), with the
\* short_name the class derives from the holder's name
CardSample ==
    [holder_name |-> "RAFAEL A SILVA", short_name |-> "RAF",
     last_digits |-> "5415"]

\* InternationalInfo(original_amount, original_currency, exchange_rate, city)
InternationalInfo(original_amount, original_currency, exchange_rate, city) ==
    [original_amount |-> original_amount,
     original_currency |-> original_currency,
     exchange_rate |-> exchange_rate, city |-> city]

TxSamples ==
    { [Transaction(PurchaseDay, "AUTO JAPAN", 34261, PARCELADA,
                   Some(Installment(8, 10)))
          EXCEPT !.card = Some(CardSample)],
      [Transaction(PaymentDay, "SUPERMERCADO", 12595, A_VISTA, None)
          EXCEPT !.card = Some(CardSample),
                 !.location = Some("BELO HORIZONT"),
                 !.category = Some("ALIMENTAÇÃO")],
      \* a transaction with every optional field set
      [Transaction(PurchaseDay, "GITHUB", 5830, PARCELADA,
                   Some(Installment(2, 3)))
          EXCEPT !.card = Some(CardSample),
                 !.international =
                     Some(InternationalInfo(1000, "USD", 583,
                                            Some("SAN FRANCISCO"))),
                 !.location = Some("SAO PAULO"),
                 !.category = Some("SERVIÇOS")],
      [Transaction(PaymentDay, "OPENAI", 5830, A_VISTA, None)
          EXCEPT !.international =
                     Some(InternationalInfo(1000, "USD", 583, None)),
                 !.category = Some("SERVIÇOS")],
      Transaction(PurchaseDay, "Test", 10000, PARCELADA, None),
      Transaction(PaymentDay, "Test", 10000, A_VISTA, None),
      Transaction(PaymentDay, "APPLE.COM/BILL", -2886, A_VISTA, None),
      Transaction(PurchaseDay, "Test", 0, A_VISTA, Some(Installment(1, 3))) }

Amounts == {-4500, 0, 4500}

\* field(default_factory=dict): the cards mapping, a function from the
\* last four digits to the Card, empty when built
NoCards == <<>>

Faturas ==
    [transactions : SeqsUpTo(TxSamples, MaxTx),
     cards : {NoCards},
     statement_date : {None, Some(StatementDay)},
     payment_date : {None, Some(PaymentDay)},
     payment_made : Amounts,
     iof_international : Amounts]

\* Fatura(): the defaults of the dataclass
EmptyFatura ==
    [transactions |-> <<>>, cards |-> NoCards, statement_date |-> None, payment_date |-> None,
     payment_made |-> 0, iof_international |-> 0]

\* the parts of the state a specification does not exercise stay as built
ExportIdle ==
    /\ sink = [header |-> <<>>, rows |-> <<>>]
    /\ checksum = 0
    /\ ncalls = 0
    /\ ynab_row = None

AmountIdle ==
    /\ amount_str = <<>>
    /\ amount_out = None

\* run_batch has not been called
BatchIdle ==
    /\ pdf_files = <<>>
    /\ batch = [pc |-> "idle", i |-> 0, action |-> "", views |-> 0]
    /\ logger = [entries |-> <<>>, counts |-> None]

\* no column text is kept when a pass draws its lines as it reads them
DocIdle ==
    /\ doc = <<>>
    /\ marks = {}

ParseIdle ==
    /\ pc = "idle"
    /\ page = 0
    /\ col = "left"
    /\ window = <<>>
    /\ nlines = 0
    /\ state = InitialState
    /\ intl = IntlLocals
    /\ DocIdle

InitExport ==
    /\ fatura \in Faturas
    /\ ExportIdle
    /\ BatchIdle
    /\ AmountIdle
    /\ ParseIdle

NextExport ==
    \/ \E exported_at \in Timestamps, today \in Todays :
          Export(exported_at, today)
    \/ \E k \in 1..MaxTx : CallToYnabRow(k)

SpecExport == InitExport /\ [][NextExport]_vars

InitAmount ==
    /\ amount_str \in Tokens
    /\ amount_out = None
    /\ fatura = EmptyFatura
    /\ ExportIdle
    /\ BatchIdle
    /\ ParseIdle

NextAmount == CallParseBrlAmount

SpecAmount == InitAmount /\ [][NextAmount]_vars

\* the main pass: parse() after _parse_summary, which leaves the transaction
\* list empty and may have set the statement date
InitMain ==
    /\ fatura \in {EmptyFatura,
                   [EmptyFatura EXCEPT !.statement_date = Some(MkDate(2024, 11, 6))]}
    /\ pc = "main_page"
    /\ page = 0
    /\ col = "left"
    /\ window = <<>>
    /\ nlines = 0
    /\ state = InitialState
    /\ intl = IntlLocals
    /\ DocIdle
    /\ ExportIdle
    /\ BatchIdle
    /\ AmountIdle

NextMain ==
    \/ \E has_table \in BOOLEAN : ParsePageColumns(has_table)
    \/ MainCropFails
    \/ \E w \in FirstWindows : MainCropColumn(w)
    \/ MainParseLine
    \/ MainEndColumn
    \/ MainPagesDone

SpecMain == InitMain /\ [][NextMain]_vars

\* the international pass: parse() after the main pass, which records no
\* transaction (MainRecordsNothing)
InitIntl ==
    /\ fatura \in {EmptyFatura,
                   [EmptyFatura EXCEPT !.statement_date = Some(MkDate(2024, 11, 6))]}
    /\ pc = "intl_page"
    /\ page = 0
    /\ col = "left"
    /\ window = <<>>
    /\ nlines = 0
    /\ state = InitialState
    /\ intl = IntlLocals
    /\ DocIdle
    /\ ExportIdle
    /\ BatchIdle
    /\ AmountIdle

NextIntl ==
    \/ \E has_section \in BOOLEAN : IntlPage(has_section)
    \/ IntlSkipColumn
    \/ \E line \in IntlNextLines(FALSE, 0) : IntlCropColumn(line)
    \/ IntlParseLine
    \/ IntlEndColumn
    \/ IntlPagesDone

SpecIntl == InitIntl /\ [][NextIntl]_vars

\* ------------------------------------ both passes over one column text
\* parse reads one and the same page in its second and in its third pass.
\* Here the page has one column of text: the main pass reads it with the
\* tracker, then the international pass reads it again with its locals.
DocLines ==
    { \* "Lançamentos internacionais"
      [NoLine EXCEPT !.intl = TRUE],
      \* "Lançamentos: compras e saques"
      [NoLine EXCEPT !.compras = TRUE],
      \* "15/10 GITHUB 58,30"
      TxLine(<<15, 10>>, "GITHUB", Tok5830),
      \* "31/02 FARMACIA 1,00"
      TxLine(<<31, 2>>, "FARMACIA", Tok100),
      \* "SAN FRANCISCO 10,00 USD 5,83"
      [NoLine EXCEPT !.details = Some(<<"SAN FRANCISCO", Tok1000, "USD">>)],
      \* "Dólar de Conversão R$ 5,83"
      [NoLine EXCEPT !.dolar = TRUE, !.rate = Some(Tok583)],
      \* "Total lançamentos inter. em R$ 103,30"
      [NoLine EXCEPT !.total = TRUE, !.total_lan_inter = TRUE] }

DocTexts == UNION {[1..k -> DocLines] : k \in 1..MaxDocLines}

\* the line under the cursor i = nlines, and the one after it
DocLine == doc[nlines + 1]
DocLookahead == IF nlines + 2 <= Len(doc) THEN Some(doc[nlines + 2]) ELSE None

\* _parse_full_date(date_str): date(year, month, day) of a DD/MM/YYYY
\* token, which raises ValueError for a year, month or day out of range
ParseFullDate(ddmmyyyy) ==
    IF /\ ddmmyyyy[3] \in 1..9999
       /\ ddmmyyyy[2] \in 1..12
       /\ ddmmyyyy[1] \in 1..DaysInMonth(ddmmyyyy[3], ddmmyyyy[2])
        THEN Return(MkDate(ddmmyyyy[3], ddmmyyyy[2], ddmmyyyy[1]))
        ELSE Raise("ValueError")

\* what PAYMENT_PATTERN, DUE_DATE_PATTERN and STATEMENT_DATE_PATTERN find
\* in the text of the first page: nothing, or their groups
PaymentMatches ==
    {None} \cup {Some(<<d, Tok5830>>) : d \in {<<10, 10, 2025>>, <<31, 2, 2025>>}}
DateMatches == {None} \cup {Some(d) : d \in {<<6, 11, 2025>>, <<31, 2, 2025>>}}

\* _parse_summary(page, fatura): the fields are set in the order of the
\* code, and the first date that is no date ends the call with ValueError
ParseSummary(f, payment, due, emission) ==
    LET payment_date == IF payment /= None THEN ParseFullDate(payment[1][1])
                                          ELSE Return(None)
        due_date == IF due /= None THEN ParseFullDate(due[1]) ELSE Return(None)
        statement_date == IF emission /= None THEN ParseFullDate(emission[1])
                                              ELSE Return(None)
        paid == IF payment = None THEN f
                ELSE [f EXCEPT !.payment_date = Some(payment_date.val[1]),
                               !.payment_made =
                                   Cents(ParseBrlAmount(payment[1][2]))]
    IN  IF payment_date.exc /= "none"
            THEN [fatura |-> f, exc |-> payment_date.exc]
        ELSE IF due_date.exc /= "none"
            THEN [fatura |-> paid, exc |-> due_date.exc]
        ELSE IF statement_date.exc /= "none"
            THEN [fatura |-> paid, exc |-> statement_date.exc]
        ELSE [fatura |-> IF emission = None THEN paid
                         ELSE [paid EXCEPT !.statement_date =
                                             Some(statement_date.val[1])],
              exc |-> "none"]

\* parse calls _parse_summary on the first page, outside any try
DocParseSummary(payment, due, emission) ==
    /\ pc = "summary"
    /\ LET r == ParseSummary(fatura, payment, due, emission)
       IN  /\ fatura' = r.fatura
           /\ pc' = IF r.exc /= "none" THEN "failed" ELSE "doc_main"
    /\ UNCHANGED <<page, col, window, nlines, state, intl, notparse>>

\* the second pass is over: the third starts on the same text
StartIntlPass ==
    /\ pc' = "doc_intl"
    /\ nlines' = 0
    /\ intl' = IntlLocals

\* one iteration of the while loop of _parse_column_text on the text; the
\* line is marked when the chain of tests sends it to a transaction branch
DocMainLine ==
    /\ pc = "doc_main"
    /\ nlines < Len(doc)
    /\ LET r == ParseLine(DocLine, DocLookahead, state, StatementYear(fatura))
       IN  /\ state' = r.state
           /\ fatura' = [fatura EXCEPT !.transactions = @ \o r.append]
           /\ marks' = IF Classify(DocLine, state) \in {"installment", "plain"}
                           THEN marks \cup {nlines + 1} ELSE marks
           /\ IF r.exc /= "none"
                 THEN StartIntlPass
                 ELSE nlines' = nlines + r.used /\ UNCHANGED <<pc, intl>>
    /\ UNCHANGED <<page, col, window, doc, sink, checksum, ncalls, ynab_row,
                   amtvars, batchvars>>

\* i reached len(lines)
DocMainEnd ==
    /\ pc = "doc_main"
    /\ nlines >= Len(doc)
    /\ StartIntlPass
    /\ UNCHANGED <<fatura, page, col, window, state, notparse>>

\* the column text holds "Lançamentos internacionais"
HasIntlBanner(text) == \E i \in DOMAIN text : text[i].intl

\* one iteration of the for loop of _parse_international_from_text
DocIntlLine ==
    /\ pc = "doc_intl"
    /\ HasIntlBanner(doc)
    /\ nlines < Len(doc)
    /\ LET r == IntlParseLineOp(DocLine, intl, StatementYear(fatura))
       IN  /\ intl' = r.intl
           /\ fatura' = [fatura EXCEPT
                            !.transactions = @ \o r.append,
                            !.iof_international =
                                IF r.iof /= None THEN r.iof[1] ELSE @]
           /\ IF r.exc /= "none"
                 THEN pc' = "failed" /\ UNCHANGED nlines
                 ELSE nlines' = nlines + 1 /\ UNCHANGED pc
    /\ UNCHANGED <<page, col, window, state, notparse>>

\* the column is passed over for want of the banner, or its lines are read:
\* parse returns the fatura
DocIntlEnd ==
    /\ pc = "doc_intl"
    /\ ~HasIntlBanner(doc) \/ nlines >= Len(doc)
    /\ pc' = "done"
    /\ UNCHANGED <<fatura, page, col, window, nlines, state, intl, notparse>>

InitDoc ==
    /\ fatura = EmptyFatura
    /\ pc = "summary"
    /\ page = 0
    /\ col = "left"
    /\ window = <<>>
    /\ nlines = 0
    /\ state = InitialState
    /\ intl = IntlLocals
    /\ doc \in DocTexts
    /\ marks = {}
    /\ ExportIdle
    /\ BatchIdle
    /\ AmountIdle

NextDoc ==
    \/ \E payment \in PaymentMatches, due, emission \in DateMatches :
          DocParseSummary(payment, due, emission)
    \/ DocMainLine
    \/ DocMainEnd
    \/ DocIntlLine
    \/ DocIntlEnd

SpecDoc == InitDoc /\ [][NextDoc]_vars

\* the main pass leaves the transaction list as it found it
MainRecordsNothing == fatura.transactions = <<>>

\* ------------------------------------------------------------ run_batch
\* batch.py FileStatus
ACCEPTED == "accepted"
REJECTED == "rejected"
SKIPPED == "skipped"
ERROR == "error"
FileStatus == {ACCEPTED, REJECTED, SKIPPED, ERROR}

\* a logger that keeps the latest entry only
LogKeepingLatest(lg, status, file_path) ==
    [lg EXCEPT !.entries = <<[status |-> status, file_path |-> file_path]>>]

\* BatchLogger.log(status, file_path, message): the entry is appended
Log(lg, status, file_path) ==
    [lg EXCEPT !.entries =
        Append(@, [status |-> status, file_path |-> file_path])]

\* counts[status] of write_summary
Count(entries, status) ==
    Cardinality({k \in DOMAIN entries : entries[k].status = status})

\* BatchLogger.write_summary(): the total and the four counts it writes
WriteSummary(lg) ==
    [lg EXCEPT !.counts =
        Some([total |-> Len(lg.entries),
              accepted |-> Count(lg.entries, ACCEPTED),
              rejected |-> Count(lg.entries, REJECTED),
              skipped |-> Count(lg.entries, SKIPPED),
              errors |-> Count(lg.entries, ERROR)])]

\* parser.parse(pdf_path, password=password): ItauPDFParser.parse takes
\* file_path only, so the call raises TypeError before the file is opened
ParserParse == Raise("TypeError")

\* the body of the loop from "Parsing..." on: the status it logs for the
\* outcome `parsed` of the parse call, the answer to "Continue anyway?",
\* the exception print_summary or print_cards_summary raises, the answer to
\* "Accept and save?" and the exception the export raises
ParseAndSave(parsed, continue_anyway, shown, accept, exported) ==
    IF parsed.exc /= "none" THEN <<ERROR>>
    ELSE IF parsed.val[1].transactions = <<>> /\ ~continue_anyway
        THEN <<REJECTED>>
    ELSE IF shown /= "none" THEN <<ERROR>>
    ELSE IF accept
        THEN IF exported = "none" THEN <<ACCEPTED>> ELSE <<ERROR>>
    ELSE <<REJECTED>>

\* the entries of `statuses` logged for the file, in their order
LogAll(lg, statuses, file_path) ==
    IF statuses = <<>> THEN lg
    ELSE IF Len(statuses) = 1 THEN Log(lg, statuses[1], file_path)
    ELSE Log(Log(lg, statuses[1], file_path), statuses[2], file_path)

\* for i, pdf_path in enumerate(pdf_files, 1): the next file, and whether
\* its output exists
BatchNextFile ==
    /\ batch.pc = "loop"
    /\ batch.i < Len(pdf_files)
    /\ batch' = [batch EXCEPT
                    !.i = @ + 1,
                    !.action = "",
                    !.pc = IF pdf_files[batch.i + 1].output_exists
                               THEN "prompt" ELSE "parse"]
    /\ UNCHANGED <<pdf_files, logger, expvars, amtvars, parsevars>>

\* one turn of the while loop on prompt_skip_replace: skip logs the file
\* and goes to the next one, view shows the output and asks again, replace
\* goes on to parse
BatchPrompt(action) ==
    /\ batch.pc = "prompt"
    /\ action = "view" => batch.views < MaxViews
    /\ batch' = [batch EXCEPT
                    !.action = action,
                    !.views = IF action = "view" THEN @ + 1 ELSE @,
                    !.pc = CASE action = "skip" -> "loop"
                             [] action = "view" -> "prompt"
                             [] OTHER -> "parse"]
    /\ logger' = IF action = "skip" THEN Log(logger, SKIPPED, batch.i)
                                    ELSE logger
    /\ UNCHANGED <<pdf_files, expvars, amtvars, parsevars>>

\* the try block around parse and the summary, then "Accept and save?" and
\* the export
BatchParseAndSave(continue_anyway, shown, accept, exported) ==
    /\ batch.pc = "parse"
    /\ logger' = LogAll(logger,
                        ParseAndSave(ParserParse, continue_anyway, shown,
                                     accept, exported),
                        batch.i)
    /\ batch' = [batch EXCEPT !.pc = "loop"]
    /\ UNCHANGED <<pdf_files, expvars, amtvars, parsevars>>

\* the loop is over: counts = logger.write_summary()
BatchWriteSummary ==
    /\ batch.pc = "loop"
    /\ batch.i = Len(pdf_files)
    /\ logger' = WriteSummary(logger)
    /\ batch' = [batch EXCEPT !.pc = "done"]
    /\ UNCHANGED <<pdf_files, expvars, amtvars, parsevars>>

\* the exceptions a call may end with, "none" for a call that returns
Outcomes == {"none", "Exception"}

\* the directory holds at least one PDF, the user answered "Continue?"
\* with yes and the logger has written its header
InitBatch ==
    /\ pdf_files \in UNION {[1..n -> [output_exists : BOOLEAN]] :
                               n \in 1..MaxFiles}
    /\ batch = [pc |-> "loop", i |-> 0, action |-> "", views |-> 0]
    /\ logger = [entries |-> <<>>, counts |-> None]
    /\ fatura = EmptyFatura
    /\ ExportIdle
    /\ AmountIdle
    /\ ParseIdle

NextBatch ==
    \/ BatchNextFile
    \/ \E action \in {"skip", "replace", "view"} : BatchPrompt(action)
    \/ \E continue_anyway, accept \in BOOLEAN, shown, exported \in Outcomes :
          BatchParseAndSave(continue_anyway, shown, accept, exported)
    \/ BatchWriteSummary

SpecBatch == InitBatch /\ [][NextBatch]_vars

\* --------------------------------------------- properties of the export
Exported == ncalls > 0

RowsPaid(payee) == {k \in DOMAIN sink.rows : sink.rows[k].Payee = payee}

HasPart(memo, k, v) == \E j \in DOMAIN memo : memo[j].k = k /\ memo[j].v = v
HasKey(memo, k) == \E j \in DOMAIN memo : memo[j].k = k

\* the first day of the statement month, as DD/MM/YYYY, or of the month of
\* one of the days an export may run on when no statement date is known
IsEffectiveDate(ddmmyyyy) ==
    IF fatura.statement_date /= None
        THEN ddmmyyyy = <<1, fatura.statement_date[1].month,
                          fatura.statement_date[1].year>>
        ELSE \E t \in Todays : ddmmyyyy = <<1, t.month, t.year>>

\* C1: the checksum returned by export is the sum of amount_brl over all
\* transactions, plus iof_international when it is positive; payment_made
\* is never part of it, whether or not the payment row is emitted.
C1_ChecksumExcludesPayment ==
    Exported =>
        checksum = SumAmounts(fatura.transactions)
                   + (IF fatura.iof_international > 0
                         THEN fatura.iof_international ELSE 0)

C1_Witness ==
    /\ Exported
    /\ Len(fatura.transactions) = 2
    /\ fatura.iof_international > 0
    /\ RowsPaid("Pagamento Fatura Anterior") /= {}
    /\ checksum = SumAmounts(fatura.transactions) + fatura.iof_international

\* C2: export emits exactly one row with payee "Pagamento Fatura Anterior"
\* when payment_made > 0 and payment_date is set, and none otherwise; the
\* row is dated payment_date, its Outflow is empty and its Inflow is
\* payment_made with two decimals.
C2_PaymentRow ==
    Exported =>
        IF fatura.payment_made > 0 /\ fatura.payment_date /= None
            THEN /\ Cardinality(RowsPaid("Pagamento Fatura Anterior")) = 1
                 /\ \A k \in RowsPaid("Pagamento Fatura Anterior") :
                       /\ sink.rows[k].Date =
                              <<fatura.payment_date[1].day,
                                fatura.payment_date[1].month,
                                fatura.payment_date[1].year>>
                       /\ sink.rows[k].Outflow = <<>>
                       /\ sink.rows[k].Inflow =
                              <<fatura.payment_made \div 100,
                                fatura.payment_made % 100>>
            ELSE RowsPaid("Pagamento Fatura Anterior") = {}

C2_Witness ==
    /\ Exported
    /\ fatura.payment_made > 0
    /\ fatura.payment_date /= None
    /\ Cardinality(RowsPaid("Pagamento Fatura Anterior")) = 1

\* C3: export emits exactly one row with payee "IOF Internacional" when
\* iof_international > 0, and none otherwise; the row is dated the first day
\* of the statement month (of the current month when the statement date is
\* unknown), its Outflow is iof_international with two decimals, its Inflow
\* is empty, and the checksum exceeds the transactions' sum by the IOF.
C3_IofRow ==
    Exported =>
        IF fatura.iof_international > 0
            THEN /\ Cardinality(RowsPaid("IOF Internacional")) = 1
                 /\ \A k \in RowsPaid("IOF Internacional") :
                       /\ IsEffectiveDate(sink.rows[k].Date)
                       /\ sink.rows[k].Outflow =
                              <<fatura.iof_international \div 100,
                                fatura.iof_international % 100>>
                       /\ sink.rows[k].Inflow = <<>>
                 /\ checksum - SumAmounts(fatura.transactions)
                        = fatura.iof_international
            ELSE RowsPaid("IOF Internacional") = {}

C3_Witness ==
    /\ Exported
    /\ fatura.iof_international = 4500
    /\ fatura.statement_date = Some(StatementDay)
    /\ \E k \in RowsPaid("IOF Internacional") :
          /\ sink.rows[k].Date = <<1, 11, 2025>>
          /\ sink.rows[k].Outflow = <<45, 0>>

\* C4: a PARCELADA transaction is rendered with the first day of the
\* statement month (of the current month when the statement date is
\* unknown) and its memo holds orig: with its purchase date as DD/MM/YYYY;
\* a transaction of another kind is rendered with its own date and its memo
\* holds no orig: fragment.
C4_InstallmentEffectiveDate ==
    Exported =>
        \A k \in DOMAIN fatura.transactions :
            LET tx == fatura.transactions[k]
                row == sink.rows[k]
                own == <<tx.date.day, tx.date.month, tx.date.year>>
            IN  IF tx.transaction_type = PARCELADA
                    THEN /\ IsEffectiveDate(row.Date)
                         /\ HasPart(row.Memo, "orig", own)
                    ELSE /\ row.Date = own
                         /\ ~HasKey(row.Memo, "orig")

C4_Witness ==
    /\ Exported
    /\ fatura.statement_date = Some(StatementDay)
    /\ Len(fatura.transactions) = 2
    /\ fatura.transactions[1].transaction_type = PARCELADA
    /\ fatura.transactions[1].installment = Some(Installment(8, 10))
    /\ sink.rows[1].Date = <<1, 11, 2025>>
    /\ HasPart(sink.rows[1].Memo, "orig", <<26, 3, 2025>>)
    /\ HasPart(sink.rows[1].Memo, "parcela", <<8, 10>>)
    /\ fatura.transactions[2].transaction_type = A_VISTA
    /\ sink.rows[2].Date = <<10, 10, 2025>>

\* C11: in every row made for a transaction, by export and by to_ynab_row,
\* Outflow is filled exactly when the amount is positive and Inflow exactly
\* when it is negative, with the absolute value; a zero amount leaves both
\* empty and the two are never filled together.
C11_OutflowInflowBySign ==
    /\ Exported =>
          \A k \in DOMAIN fatura.transactions :
              LET a == fatura.transactions[k].amount_brl
                  r == sink.rows[k]
              IN  /\ (r.Outflow /= <<>>) <=> (a > 0)
                  /\ (r.Inflow /= <<>>) <=> (a < 0)
                  /\ a > 0 => r.Outflow = <<a \div 100, a % 100>>
                  /\ a < 0 => r.Inflow = <<(-a) \div 100, (-a) % 100>>
                  /\ r.Outflow = <<>> \/ r.Inflow = <<>>
    /\ ynab_row /= None =>
          LET a == fatura.transactions[ynab_row[1].tx].amount_brl
              r == ynab_row[1].row
          IN  /\ (r.Outflow /= <<>>) <=> (a > 0)
              /\ (r.Inflow /= <<>>) <=> (a < 0)
              /\ a > 0 => r.Outflow = <<"", a \div 100, a % 100>>
              /\ a < 0 => r.Inflow = <<"", (-a) \div 100, (-a) % 100>>
              /\ r.Outflow = <<>> \/ r.Inflow = <<>>

\* a credit exported and converted, beside a purchase or a zero amount
C11_Witness ==
    /\ Exported
    /\ ynab_row /= None
    /\ fatura.transactions[ynab_row[1].tx].amount_brl < 0
    /\ ynab_row[1].row.Inflow /= <<>>
    /\ \E k \in DOMAIN fatura.transactions :
          fatura.transactions[k].amount_brl < 0 /\ sink.rows[k].Inflow /= <<>>
    /\ \E k \in DOMAIN fatura.transactions :
          fatura.transactions[k].amount_brl >= 0 /\ sink.rows[k].Inflow = <<>>

HasIofRow == fatura.iof_international > 0
HasPaymentRow == fatura.payment_made > 0 /\ fatura.payment_date /= None

\* C12: the file written by export holds the header row, then one row per
\* transaction in the order of the statement's list, then the IOF row if
\* there is one, then the payment row if there is one, and nothing else; a
\* statement with no transaction, IOF or payment gives the header row alone.
C12_SinkLayout ==
    Exported =>
        LET n == Len(fatura.transactions)
            i == IF HasIofRow THEN 1 ELSE 0
            p == IF HasPaymentRow THEN 1 ELSE 0
        IN  /\ sink.header = <<"Date", "Payee", "Memo", "Outflow", "Inflow">>
            /\ Len(sink.rows) = n + i + p
            /\ \A k \in 1..n :
                  /\ sink.rows[k].Payee = fatura.transactions[k].description
                  /\ sink.rows[k].Outflow \o sink.rows[k].Inflow =
                         IF fatura.transactions[k].amount_brl = 0 THEN <<>>
                         ELSE <<Abs(fatura.transactions[k].amount_brl) \div 100,
                                Abs(fatura.transactions[k].amount_brl) % 100>>
            /\ HasIofRow => sink.rows[n + 1].Payee = "IOF Internacional"
            /\ HasPaymentRow =>
                  sink.rows[n + i + 1].Payee = "Pagamento Fatura Anterior"

\* two different transactions, the IOF and the payment: five lines
C12_Witness ==
    /\ Exported
    /\ Len(fatura.transactions) = 2
    /\ fatura.transactions[1].description /= fatura.transactions[2].description
    /\ HasIofRow
    /\ HasPaymentRow
    /\ Len(sink.rows) = 4
    /\ sink.rows[3].Payee = "IOF Internacional"
    /\ sink.rows[4].Payee = "Pagamento Fatura Anterior"

\* the empty statement: the header row alone
C12_WitnessEmpty ==
    /\ Exported
    /\ fatura.transactions = <<>>
    /\ sink.header /= <<>>
    /\ sink.rows = <<>>

FragmentRank ==
    [card |-> 1, orig |-> 2, parcela |-> 3, intl |-> 4, city |-> 5,
     loc |-> 6, cat |-> 7, exp |-> 8]

\* C14: the memo of a transaction row is made of the fragments that apply,
\* in the order card, original date, installment, international amount,
\* international city, location, category, export timestamp; a fragment
\* whose data is absent is left out and the others keep their order.
C14_MemoFragmentOrder ==
    Exported =>
        \A k \in DOMAIN fatura.transactions :
            LET tx == fatura.transactions[k]
                memo == sink.rows[k].Memo
            IN  /\ \A j \in DOMAIN memo : memo[j].k \in DOMAIN FragmentRank
                /\ \A i, j \in DOMAIN memo :
                      i < j => FragmentRank[memo[i].k] < FragmentRank[memo[j].k]
                /\ HasKey(memo, "card") <=> tx.card /= None
                /\ HasKey(memo, "orig") <=> tx.transaction_type = PARCELADA
                /\ HasKey(memo, "parcela") <=> tx.installment /= None
                /\ HasKey(memo, "intl") <=> tx.international /= None
                /\ HasKey(memo, "city") <=>
                      /\ tx.international /= None
                      /\ tx.international[1].city /= None
                /\ HasKey(memo, "loc") <=> tx.location /= None
                /\ HasKey(memo, "cat") <=> tx.category /= None
                /\ HasKey(memo, "exp")

\* a memo with all eight fragments beside one that lacks some of them
C14_Witness ==
    /\ Exported
    /\ \E k \in DOMAIN fatura.transactions :
          /\ Len(sink.rows[k].Memo) = 8
          /\ sink.rows[k].Memo[1].k = "card"
          /\ sink.rows[k].Memo[8].k = "exp"
    /\ \E k \in DOMAIN fatura.transactions :
          /\ Len(sink.rows[k].Memo) = 3
          /\ sink.rows[k].Memo[1].k = "intl"
          /\ sink.rows[k].Memo[2].k = "cat"

\* C15: in the file written by export the memo of the IOF row is exactly
\* "iof" and the memo of the payment row is exactly "payment".
C15_SyntheticMemosExact ==
    Exported =>
        /\ \A k \in RowsPaid("IOF Internacional") :
              sink.rows[k].Memo = <<Part("iof", <<>>)>>
        /\ \A k \in RowsPaid("Pagamento Fatura Anterior") :
              sink.rows[k].Memo = <<Part("payment", <<>>)>>

\* C16: for a transaction attributed to a card, the exported memo has
\* "card:" followed at once by the last four digits of the card.
C16_CardFragmentIsLastDigits ==
    Exported =>
        \A k \in DOMAIN fatura.transactions :
            fatura.transactions[k].card /= None =>
                \E j \in DOMAIN sink.rows[k].Memo :
                    /\ sink.rows[k].Memo[j].k = "card"
                    /\ sink.rows[k].Memo[j].v[1] =
                           fatura.transactions[k].card[1].last_digits

\* the step is a call of export
ExportStep == ncalls' = ncalls + 1

\* the statement after the call is the one before it but for the stamps
OnlyStampsChanged ==
    /\ Len(fatura'.transactions) = Len(fatura.transactions)
    /\ \A k \in DOMAIN fatura.transactions :
          [fatura'.transactions[k] EXCEPT !.exported_at = None]
              = [fatura.transactions[k] EXCEPT !.exported_at = None]
    /\ [fatura' EXCEPT !.transactions = <<>>]
           = [fatura EXCEPT !.transactions = <<>>]

NotExp(part) == part.k /= "exp"

\* a row without the timestamp of its memo
Unstamped(row) == [row EXCEPT !.Memo = SelectSeq(@, NotExp)]

\* the row is dated by the purchase or by the payment, not by the month of
\* the statement
DatedByItself(k) ==
    IF k <= Len(fatura.transactions)
        THEN fatura.transactions[k].transaction_type /= PARCELADA
        ELSE sink.rows[k].Payee = "Pagamento Fatura Anterior"

\* C29 as stated: export changes nothing in the statement except the
\* exported_at of each transaction, so a second export of the same
\* statement returns the same checksum and writes the same rows apart from
\* the timestamp.
C29_ExportTwiceSameRows ==
    [][ExportStep =>
          /\ OnlyStampsChanged
          /\ ncalls >= 1 =>
                /\ checksum' = checksum
                /\ Len(sink'.rows) = Len(sink.rows)
                /\ \A k \in DOMAIN sink.rows :
                      Unstamped(sink'.rows[k]) = Unstamped(sink.rows[k])
      ]_vars

\* C29: export changes nothing in the statement except the exported_at of
\* each transaction, so a second export of the same statement returns the
\* same checksum and writes the same rows apart from the timestamp and,
\* when the statement has no statement date, apart from the date of the
\* rows dated by the month of the export: those of PARCELADA transactions
\* and the IOF row.
C29_ExportFrame ==
    [][ExportStep =>
          /\ OnlyStampsChanged
          /\ ncalls >= 1 =>
                /\ checksum' = checksum
                /\ Len(sink'.rows) = Len(sink.rows)
                /\ \A k \in DOMAIN sink.rows :
                      /\ [Unstamped(sink'.rows[k]) EXCEPT !.Date = <<>>]
                             = [Unstamped(sink.rows[k]) EXCEPT !.Date = <<>>]
                      /\ fatura.statement_date /= None \/ DatedByItself(k)
                            => sink'.rows[k].Date = sink.rows[k].Date
      ]_vars

\* exported twice: a statement of two different transactions, one of them
\* PARCELADA, without statement date, with the IOF row and the payment row
C29_Witness ==
    /\ ncalls = 2
    /\ Len(fatura.transactions) = 2
    /\ fatura.transactions[1].description /= fatura.transactions[2].description
    /\ fatura.transactions[1].transaction_type = PARCELADA
    /\ fatura.transactions[1].exported_at = Some(2)
    /\ fatura.statement_date = None
    /\ HasIofRow
    /\ HasPaymentRow

\* -------------------------------------------- properties of run_batch
\* the files the loop has gone past
FilesProcessed ==
    IF batch.pc \in {"loop", "done"} THEN batch.i ELSE batch.i - 1

\* what parse may return or raise, for the statuses of the loop body
ParseOutcomes ==
    {Raise("TypeError"), Return(EmptyFatura)}
        \cup {Return([EmptyFatura EXCEPT !.transactions = <<tx>>]) :
                 tx \in TxSamples}

\* C30: every PDF file the loop of run_batch has gone past has exactly one
\* log entry, with one status among accepted, rejected, skipped and error,
\* for any answers at the prompts (view requests included) and any outcome
\* of parse and export, and the counts of the summary add up to the number
\* of files processed.
C30_OneEntryPerFile ==
    /\ Len(logger.entries) = FilesProcessed
    /\ \A k \in DOMAIN logger.entries :
          /\ logger.entries[k].file_path = k
          /\ logger.entries[k].status \in FileStatus
    /\ \A parsed \in ParseOutcomes, continue_anyway, accept \in BOOLEAN,
          shown, exported \in Outcomes :
          LET statuses == ParseAndSave(parsed, continue_anyway, shown,
                                       accept, exported)
          IN  Len(statuses) = 1 /\ statuses[1] \in FileStatus
    /\ batch.pc = "done" =>
          /\ logger.counts /= None
          /\ logger.counts[1].total = Len(pdf_files)
          /\ logger.counts[1].accepted + logger.counts[1].rejected
                + logger.counts[1].skipped + logger.counts[1].errors
                    = logger.counts[1].total
    /\ batch.pc /= "done" => logger.counts = None

\* the run is over: a file was skipped after two view requests, another
\* went through parse, and the summary is written
C30_Witness ==
    /\ batch.pc = "done"
    /\ batch.views = MaxViews
    /\ Len(pdf_files) >= 2
    /\ logger.counts /= None
    /\ logger.counts[1].skipped >= 1
    /\ logger.counts[1].errors >= 1

\* ---------------------------------------- properties of the amount parser
Dec(neg, coef, places) ==
    [exc |-> "none", neg |-> neg, coef |-> coef, places |-> places]

\* what is left of a token once spaces and periods are dropped is a number:
\* an optional sign, then digits with at most one comma among them
ReadsAsNumber(s) ==
    LET kept == SelectSeq(s, LAMBDA c : c \notin {" ", "."})
        from == IF kept /= <<>> /\ kept[1] \in {"-", "+"} THEN 2 ELSE 1
    IN  /\ \A i \in from..Len(kept) : kept[i] \in Digits \cup {","}
        /\ Cardinality({i \in from..Len(kept) : kept[i] = ","}) <= 1
        /\ \E i \in from..Len(kept) : kept[i] \in Digits

\* C8: _parse_brl_amount drops spaces and thousands separators, reads the
\* comma as the decimal point and returns the exact decimal value
\* ("1.234,56" is 1234.56, "- 80,00" is -80.00, "0,20" is 0.20); a token that
\* is no number after these steps gives zero, and no token makes it raise.
C8_ParseBrlAmount ==
    amount_out /= None =>
        /\ amount_out[1].exc = "none"
        /\ ~ReadsAsNumber(amount_str) => amount_out[1] = DecimalZero
        /\ ReadsAsNumber(amount_str) =>
              /\ amount_out[1].coef =
                     DigitsValue(SelectSeq(amount_str, LAMBDA c : c \in Digits))
              /\ amount_out[1].neg = (\E i \in DOMAIN amount_str :
                                      amount_str[i] = "-")
              /\ amount_out[1].places =
                     Cardinality({i \in DOMAIN amount_str :
                                     /\ amount_str[i] \in Digits
                                     /\ \E j \in 1..(i - 1) :
                                            amount_str[j] = ","})
        /\ amount_str = <<"1", ".", "2", "3", "4", ",", "5", "6">>
              => amount_out[1] = Dec(FALSE, 123456, 2)
        /\ amount_str = <<"-", " ", "8", "0", ",", "0", "0">>
              => amount_out[1] = Dec(TRUE, 8000, 2)
        /\ amount_str = <<"0", ",", "2", "0">>
              => amount_out[1] = Dec(FALSE, 20, 2)

C8_Witness ==
    /\ amount_str = <<"-", " ", "8", "0", ",", "0", "0">>
    /\ amount_out = Some(Dec(TRUE, 8000, 2))

C8_WitnessMalformed ==
    /\ amount_str = <<"-", "-", "1", ",", "0", "0">>
    /\ amount_out = Some(DecimalZero)

\* ------------------------------------------- properties of the main pass
\* the cursor of the main pass stands on a line that the chain of tests
\* sends to the transaction branch `kind` and whose date is a date
Recognized(kind) ==
    /\ pc = "main_lines"
    /\ window /= <<>>
    /\ Classify(window[1], state) = kind
    /\ ParseDate(window[1].date[1], StatementYear(fatura)).exc = "none"

\* the step appends exactly one transaction to the list
RecordsOne ==
    /\ Len(fatura'.transactions) = Len(fatura.transactions) + 1
    /\ SubSeq(fatura'.transactions, 1, Len(fatura.transactions))
           = fatura.transactions

Recorded == fatura'.transactions[Len(fatura'.transactions)]

\* lines of the column text the cursor has gone past
Consumed == nlines - Len(window)

C10_CategoryLineAttached ==
    [][/\ Recognized("plain") \/ Recognized("installment")
       /\ Len(window) >= 2
       /\ window[2].cat /= None
       =>
          /\ RecordsOne
          /\ Recorded.category = Some(window[2].cat[1][1])
          /\ Recorded.location = Some(Upper(window[2].cat[1][2]))
          /\ pc' = "main_lines"
          /\ nlines' - Len(window') = Consumed + 2
      ]_vars

\* C17: the statement's cards mapping has an entry, keyed by the last four
\* digits, for every card header met while parsing, added when the header
\* is met: the card the tracker holds is a key of the mapping.
C17_CardsHoldHeadersMet ==
    state.current_card /= None =>
        state.current_card[1] \in DOMAIN fatura.cards

\* the line at the cursor has the shape of a transaction: a date, an amount
\* and a description, or a date and an installment pair
TransactionShaped(line) ==
    /\ line.date /= None
    /\ \/ line.inst /= None
       \/ line.amt /= None /\ Len(line.desc) >= 2

\* C18: in the main pass no transaction is appended for a line processed
\* while in_future_section or in_intl_section is true, in any column of any
\* page: the line is passed over, nothing is built for it and the loop goes
\* on with the next line.
C18_SkippedSectionsAppendNothing ==
    [][/\ pc = "main_lines"
       /\ window /= <<>>
       /\ state.in_future_section \/ state.in_intl_section
       =>
          /\ fatura'.transactions = fatura.transactions
          /\ pc' = "main_lines"
          /\ nlines' - Len(window') = Consumed + 1
      ]_vars

\* a transaction-shaped line under the cursor inside each kind of section,
\* in a column after the first
C18_Witness ==
    /\ pc = "main_lines"
    /\ window /= <<>>
    /\ TransactionShaped(window[1])
    /\ ~window[1].skip /\ ~window[1].total /\ ~window[1].subtotal
    /\ state.in_intl_section
    /\ ~state.in_future_section
    /\ col = "right"

\* the banners of the section tracker, as the line at the cursor shows them
FutureBanner(line) == line.future
IntlBanner(line) == line.intl
CardHeaderBanner(line) == line.rafael_final /\ line.final /= None
PurchasesHeader(line) == line.compras

\* C19: the section tracker changes only on banners.  A future-installments
\* banner sets in_future_section; a card header sets current_card, clears
\* in_future_section and leaves in_intl_section; an international banner sets
\* in_intl_section; the purchases-and-withdrawals header clears
\* in_intl_section and leaves in_future_section; any other line leaves the
\* three fields as they are.
C19_TrackerChangesOnBanners ==
    [][/\ pc = "main_lines"
       /\ window /= <<>>
       =>
       LET line == window[1]
       IN  /\ FutureBanner(line) =>
                state' = [state EXCEPT !.in_future_section = TRUE]
           /\ CardHeaderBanner(line) =>
                state' = [state EXCEPT !.current_card = line.final,
                                       !.in_future_section = FALSE]
           /\ IntlBanner(line) =>
                state' = [state EXCEPT !.in_intl_section = TRUE]
           /\ PurchasesHeader(line) =>
                state' = [state EXCEPT !.in_intl_section = FALSE]
           /\ (~FutureBanner(line) /\ ~CardHeaderBanner(line)
                  /\ ~IntlBanner(line) /\ ~PurchasesHeader(line)) =>
                state' = state
      ]_vars

\* a card header met inside both sections, after another card
C19_Witness ==
    /\ pc = "main_lines"
    /\ window /= <<>>
    /\ CardHeaderBanner(window[1])
    /\ state.in_future_section
    /\ state.in_intl_section
    /\ state.current_card /= None
    /\ state.current_card /= window[1].final

\* C20: the tracker at the start of a column is the tracker at the end of
\* the column processed before it, also across a page boundary and across
\* pages that are passed over; it is built once per parse.  No step other
\* than the reading of a line changes it.
C20_TrackerCarriedOver ==
    [][~(pc = "main_lines" /\ window /= <<>>) => state' = state]_vars

\* the first line of the left column of the third page, the second page
\* having been passed over or read, with a tracker the first pages left
C20_Witness ==
    /\ pc = "main_lines"
    /\ page = 2
    /\ col = "left"
    /\ window /= <<>>
    /\ Consumed = 0
    /\ state.current_card = Some("6529")
    /\ state.in_intl_section
    /\ state.in_future_section

C26_BadTokenNeverFailsParse ==
    [][/\ pc = "summary" => pc' = "doc_main"
       /\ (/\ pc = "doc_main"
           /\ nlines < Len(doc)
           /\ Classify(DocLine, state) = "plain"
           /\ ParseDate(DocLine.date[1], StatementYear(fatura)).exc /= "none")
          => /\ pc' = "doc_main"
             /\ nlines' = nlines + 1
             /\ fatura' = fatura
      ]_vars

\* the line under the cursor of the second pass is a transaction line with
\* a date that is a date
DocRecognized ==
    /\ pc = "doc_main"
    /\ nlines < Len(doc)
    /\ Classify(DocLine, state) \in {"installment", "plain"}
    /\ ParseDate(DocLine.date[1], StatementYear(fatura)).exc = "none"

\* the line under the cursor of the third pass finalizes the pending
\* transaction: the exchange-rate line or the next start line
DocFlushing ==
    /\ pc = "doc_intl"
    /\ HasIntlBanner(doc)
    /\ nlines < Len(doc)
    /\ intl.in_intl_section
    /\ intl.pending /= None
    /\ ~DocLine.intl /\ ~DocLine.total_lan_inter
    /\ DocLine.dolar \/ DocLine.date /= None

Flushing ==
    /\ pc = "intl_lines"
    /\ window /= <<>>
    /\ intl.in_intl_section
    /\ intl.pending /= None
    /\ LET line == window[1]
       IN  /\ ~line.intl
           /\ \/ line.total_inter
              \/ /\ ~line.repasse
                 /\ ~line.total_lan_inter
                 /\ \/ line.total_dos_lan
                    \/ /\ ~line.rafael_final
                       /\ line.dolar \/ line.date /= None

C7_ColumnFailureDoesNotFailParse == pc /= "failed"

\* C22: in the international pass a pending transaction started inside the
\* section is finalized into the statement by the time the pass over its
\* column ends, also when the column ends or the closing total arrives
\* while it is pending: when the loop over the lines is over, no
\* transaction is left pending.
C22_NoPendingAtColumnEnd ==
    (pc = "intl_lines" /\ window = <<>>) => intl.pending = None

\* the line at the cursor is date-led and is taken for a start line
AtStartLine ==
    /\ pc = "intl_lines"
    /\ window /= <<>>
    /\ intl.in_intl_section
    /\ LET line == window[1]
       IN  /\ line.date /= None
           /\ ~line.intl /\ ~line.total_inter /\ ~line.repasse
           /\ ~line.total_lan_inter /\ ~line.total_dos_lan
           /\ ~line.rafael_final /\ ~line.dolar

C28_TotalFlushesAndIofIsStored ==
    [][/\ pc = "intl_lines"
       /\ window /= <<>>
       /\ intl.in_intl_section
       /\ ~window[1].intl
       =>
          /\ (window[1].total_inter /\ intl.pending /= None) =>
                /\ RecordsOne
                /\ Recorded.description = intl.pending[1].description
                /\ intl'.pending = None
          /\ (~window[1].total_inter /\ window[1].repasse
                 /\ window[1].iof /= None) =>
                /\ fatura'.transactions = fatura.transactions
                /\ fatura'.iof_international = 4500
      ]_vars

====
